---------------------------- MODULE Spec2Model ----------------------------
(***************************************************************************)
(* A model of the django_extensions view mixins and template tags:         *)
(*   AdjustablePaginationMixin.get_paginate_by   (views/mixins.py)         *)
(*   MultipleLookupMixin.get_object              (views/mixins.py)         *)
(*   SelectActionMixin.post / response_action    (views/mixins.py)         *)
(*   the @action decorator                       (views/mixins.py)         *)
(*   ModelUserFieldPermissionMixin.test_func     (auth/mixins.py)          *)
(*   build_query_string                          (templatetags/url_tools)  *)
(* Each component has its own specification over its own variables; the    *)
(* variables of the other components stay at their idle values.            *)
(***************************************************************************)
EXTENDS Integers, Sequences, FiniteSets, TLC

VARIABLES
    \* AdjustablePaginationMixin
    pagination_choices, pg_get, pg_result,
    \* MultipleLookupMixin
    lookup_fields, lookup_url_kwarg, lk_kwargs, lk_db, lk_arg, lk_qs, lk_pc,
    lk_i, lk_tried, lk_result,
    \* ModelUserFieldPermissionMixin
    model_permission_user_field, pm_user, pm_object, pm_get_object, pm_queryset,
    pm_result,
    \* build_query_string
    qs_request, qs_params, qs_out, qs_again,
    \* SelectActionMixin and the @action decorator
    deco, funcs, actions, action_selection_max, queryset, user_perms,
    parent_post, POST, handler, calls, messages, ra_result, response

pgVars == <<pagination_choices, pg_get, pg_result>>
lkVars == <<lookup_fields, lookup_url_kwarg, lk_kwargs, lk_db, lk_arg, lk_qs,
            lk_pc, lk_i, lk_tried, lk_result>>
pmVars == <<model_permission_user_field, pm_user, pm_object, pm_get_object,
            pm_queryset, pm_result>>
qsVars == <<qs_request, qs_params, qs_out, qs_again>>
actVars == <<deco, funcs, actions, action_selection_max, queryset, user_perms,
             parent_post, POST, handler, calls, messages, ra_result, response>>
vars == <<pgVars, lkVars, pmVars, qsVars, actVars>>

\* An optional value: absent, or present with a value.
Absent == <<>>
Some(x) == <<x>>

\* The outcome of a call: not yet made, a returned value, or a raised exception.
Pending == [kind |-> "pending"]
Return(v) == [kind |-> "return", value |-> v]
Raise(e) == [kind |-> "raise", exc |-> e]

\* Sequences over S of length at most n.
SeqUpTo(S, n) == UNION {[1..k -> S] : k \in 0..n}

Abs(x) == IF x < 0 THEN -x ELSE x

Range(s) == {s[k] : k \in 1..Len(s)}

-----------------------------------------------------------------------------
(* Idle values of each component's variables.                              *)

PgIdle ==
    /\ pagination_choices = <<>>
    /\ pg_get = Absent
    /\ pg_result = Pending

LkIdle ==
    /\ lookup_fields = <<>>
    /\ lookup_url_kwarg = Absent
    /\ lk_kwargs = Absent
    /\ lk_db = {}
    /\ lk_arg = Absent
    /\ lk_qs = {}
    /\ lk_pc = "idle"
    /\ lk_i = 0
    /\ lk_tried = <<>>
    /\ lk_result = Pending

PmIdle ==
    /\ model_permission_user_field = "user"
    /\ pm_user = "u1"
    /\ pm_object = Absent
    /\ pm_get_object = Absent
    /\ pm_queryset = <<>>
    /\ pm_result = Pending

QsIdle ==
    /\ qs_request = Absent
    /\ qs_params = <<>>
    /\ qs_out = Pending
    /\ qs_again = Pending

ActIdle ==
    /\ deco = <<>>
    /\ funcs = <<>>
    /\ actions = Absent
    /\ action_selection_max = Absent
    /\ queryset = {}
    /\ user_perms = {}
    /\ parent_post = FALSE
    /\ POST = <<>>
    /\ handler = "none"
    /\ calls = <<>>
    /\ messages = <<>>
    /\ ra_result = Pending
    /\ response = Pending

-----------------------------------------------------------------------------
(* AdjustablePaginationMixin.get_paginate_by                               *)

MaxChoices == 3
MaxChoiceVal == 4
MaxParamLen == 2

\* The characters a 'paginate_by' GET value is drawn from.
ParamChars == {"0", "1", "3", "-", "x"}
Digits == {"0", "1", "2", "3", "4", "5", "6", "7", "8", "9"}

DigitVal(c) ==
    CASE c = "0" -> 0 [] c = "1" -> 1 [] c = "2" -> 2 [] c = "3" -> 3
      [] c = "4" -> 4 [] c = "5" -> 5 [] c = "6" -> 6 [] c = "7" -> 7
      [] c = "8" -> 8 [] c = "9" -> 9

RECURSIVE DigitsVal(_)
DigitsVal(s) ==
    IF s = <<>> THEN 0
    ELSE 10 * DigitsVal(SubSeq(s, 1, Len(s) - 1)) + DigitVal(s[Len(s)])

AllDigits(s) == s # <<>> /\ \A k \in 1..Len(s) : s[k] \in Digits

\* int(x) of a string: an optionally signed run of decimal digits gives its
\* value; anything else is a ValueError.
PyInt(x) ==
    IF AllDigits(x) THEN Return(DigitsVal(x))
    ELSE IF Len(x) > 1 /\ x[1] = "-" /\ AllDigits(Tail(x))
         THEN Return(-DigitsVal(Tail(x)))
    ELSE Raise("ValueError")

\* sorted(pairs, key=lambda x: x[0]): stable, so equal keys keep their order.
RECURSIVE InsertByKey(_, _)
InsertByKey(x, s) ==
    IF s = <<>> THEN <<x>>
    ELSE IF s[Len(s)][1] <= x[1] THEN Append(s, x)
    ELSE Append(InsertByKey(x, SubSeq(s, 1, Len(s) - 1)), s[Len(s)])

RECURSIVE SortedByKey(_)
SortedByKey(s) ==
    IF s = <<>> THEN <<>>
    ELSE InsertByKey(s[Len(s)], SortedByKey(SubSeq(s, 1, Len(s) - 1)))

\* sorted(pairs) without the key: ties on the distance are broken by the choice.
PairLeq(a, b) == a[1] < b[1] \/ (a[1] = b[1] /\ a[2] <= b[2])

RECURSIVE InsertByPair(_, _)
InsertByPair(x, s) ==
    IF s = <<>> THEN <<x>>
    ELSE IF PairLeq(s[Len(s)], x) THEN Append(s, x)
    ELSE Append(InsertByPair(x, SubSeq(s, 1, Len(s) - 1)), s[Len(s)])

RECURSIVE SortedByPair(_)
SortedByPair(s) ==
    IF s = <<>> THEN <<>>
    ELSE InsertByPair(s[Len(s)], SortedByPair(SubSeq(s, 1, Len(s) - 1)))

NearestChoiceNoKey(choices, param) ==
    SortedByPair([k \in 1..Len(choices) |->
                     <<Abs(choices[k] - param), choices[k]>>])[1][2]

\* choices.append((abs(i - param), i)) for each i, then sorted(...)[0][1].
NearestChoice(choices, param) ==
    SortedByKey([k \in 1..Len(choices) |->
                    <<Abs(choices[k] - param), choices[k]>>])[1][2]

\* int(self.request.GET.get(self.pagination_param, 0)): the default 0 when the
\* parameter is absent, else int() of its string. Only TypeError is caught, so
\* a ValueError leaves the method.
RequestedSize(get) == IF get = Absent THEN Return(0) ELSE PyInt(get[1])

get_paginate_by(choices, get) ==
    LET param == RequestedSize(get)
    IN  IF param.kind = "raise" THEN param
        ELSE Return(NearestChoice(choices, param.value))

PgInit ==
    /\ pagination_choices \in SeqUpTo(1..MaxChoiceVal, MaxChoices) \ {<<>>}
    /\ pg_get = Absent
    /\ pg_result = Pending
    /\ LkIdle /\ PmIdle /\ QsIdle /\ ActIdle

\* setup(): a request arrives, with or without the 'paginate_by' parameter.
PgSetup ==
    /\ \E g \in {Absent} \cup {Some(v) : v \in SeqUpTo(ParamChars, MaxParamLen)} :
          pg_get' = g
    /\ pg_result' = Pending
    /\ UNCHANGED <<pagination_choices, lkVars, pmVars, qsVars, actVars>>

PgGetPaginateBy ==
    /\ pg_result = Pending
    /\ pg_result' = get_paginate_by(pagination_choices, pg_get)
    /\ UNCHANGED <<pagination_choices, pg_get, lkVars, pmVars, qsVars, actVars>>

PgNext == PgSetup \/ PgGetPaginateBy

SpecPaginate == PgInit /\ [][PgNext]_vars

\* The integer the request asks for (0 when the parameter is absent).
PgRequested == RequestedSize(pg_get)

PgDist(c) == Abs(c - PgRequested.value)

\* C1: for every integer 'paginate_by' value and non-empty pagination_choices,
\* the page size returned is a member of pagination_choices at minimal absolute
\* distance from the requested value, and among equally near choices it is the
\* one that comes first in pagination_choices.
C1_NearestFirst ==
    (pg_result # Pending /\ PgRequested.kind = "return") =>
        /\ pg_result.kind = "return"
        /\ \E j \in 1..Len(pagination_choices) :
            /\ pg_result.value = pagination_choices[j]
            /\ \A k \in 1..Len(pagination_choices) :
                  PgDist(pagination_choices[k]) >= PgDist(pagination_choices[j])
            /\ \A k \in 1..(j - 1) :
                  PgDist(pagination_choices[k]) > PgDist(pagination_choices[j])

\* A tie between two different choices, listed larger first, has been decided.
C1_Witness ==
    /\ pg_result.kind = "return"
    /\ \E j, k \in 1..Len(pagination_choices) :
          /\ j < k
          /\ pagination_choices[j] > pagination_choices[k]
          /\ PgDist(pagination_choices[j]) = PgDist(pagination_choices[k])
          /\ pg_result.value = pagination_choices[j]

-----------------------------------------------------------------------------
(* MultipleLookupMixin.get_object                                          *)

MaxLookupFields == 3

\* The model's fields: an integer primary key, a character field, and a field
\* whose values are validated on lookup (a UUID or date field).
LookupFieldNames == {"pk", "slug", "code"}

\* The strings the URL can carry.
UrlValues == {<<"1">>, <<"2">>, <<"a">>}

\* The primary keys of the table.
LookupPks == {1, 2}

LookupRecords ==
    [pk : LookupPks, slug : {<<"1">>, <<"a">>}, code : {<<"1">>, <<"2">>}]

\* A table holds at most one record per primary key.
LookupTables ==
    {t \in SUBSET LookupRecords :
        \A r1, r2 \in t : r1.pk = r2.pk => r1 = r2}

\* The records of qs whose field equals the URL value, after the field's
\* conversion of the value: an integer field raises ValueError on a string that
\* is no integer, a validated field raises ValidationError on a malformed one.
FieldMatches(qs, field, value) ==
    CASE field = "pk" -> {r \in qs : r.pk = PyInt(value).value}
      [] field = "slug" -> {r \in qs : r.slug = value}
      [] field = "code" -> {r \in qs : r.code = value}

\* queryset.get(**{field: value}): value is self.kwargs.get(lookup_url_kwarg),
\* None when the URL has no such kwarg (and then no record matches).
QuerysetGet(qs, field, kwvalue) ==
    IF kwvalue = Absent THEN Raise("DoesNotExist")
    ELSE IF field = "pk" /\ PyInt(kwvalue[1]).kind = "raise" THEN Raise("ValueError")
    ELSE IF field = "code" /\ ~AllDigits(kwvalue[1]) THEN Raise("ValidationError")
    ELSE LET found == FieldMatches(qs, field, kwvalue[1])
         IN  IF found = {} THEN Raise("DoesNotExist")
             ELSE IF Cardinality(found) > 1 THEN Raise("MultipleObjectsReturned")
             ELSE Return(CHOOSE r \in found : TRUE)

\* except (ValueError, ValidationError, queryset.model.DoesNotExist)
LookupCaught == {"ValueError", "ValidationError", "DoesNotExist"}

\* queryset = queryset or self.get_queryset(): an empty queryset is falsy.
QuerysetOr(arg, db) == IF arg = Absent \/ arg[1] = {} THEN db ELSE arg[1]

\* A slip that gives up after the first field instead of the last.
IsLastFieldFirst(i, fields) == i = 1

\* if i == (len(self.lookup_fields) - 1)
IsLastField(i, fields) == i = Len(fields)

LkInit ==
    /\ lookup_fields \in SeqUpTo(LookupFieldNames, MaxLookupFields)
    /\ lookup_url_kwarg \in {Absent, Some("slug")}
    /\ lk_kwargs \in {Absent} \cup {Some(v) : v \in UrlValues}
    /\ lk_db \in LookupTables
    /\ lk_arg \in {Absent} \cup {Some(t) : t \in SUBSET lk_db}
    /\ lk_qs = {}
    /\ lk_pc = "idle"
    /\ lk_i = 0
    /\ lk_tried = <<>>
    /\ lk_result = Pending
    /\ PgIdle /\ PmIdle /\ QsIdle /\ ActIdle

\* get_object up to the loop: the two configuration checks, then the queryset.
LkGetObject ==
    /\ lk_pc = "idle"
    /\ IF Len(lookup_fields) = 0 \/ lookup_url_kwarg = Absent
       THEN /\ lk_result' = Raise("AttributeError")
            /\ lk_pc' = "done"
            /\ UNCHANGED <<lk_qs, lk_i>>
       ELSE /\ lk_qs' = QuerysetOr(lk_arg, lk_db)
            /\ lk_i' = 1
            /\ lk_pc' = "loop"
            /\ UNCHANGED lk_result
    /\ UNCHANGED <<lookup_fields, lookup_url_kwarg, lk_kwargs, lk_db, lk_arg,
                   lk_tried, pgVars, pmVars, qsVars, actVars>>

\* One iteration of the loop over lookup_fields.
LkTryField ==
    /\ lk_pc = "loop"
    /\ LET field == lookup_fields[lk_i]
           got == QuerysetGet(lk_qs, field, lk_kwargs)
       IN  /\ lk_tried' = Append(lk_tried, field)
           /\ IF got.kind = "return"
              THEN /\ lk_result' = got
                   /\ lk_pc' = "done"
                   /\ UNCHANGED lk_i
              ELSE IF got.exc \in LookupCaught
              THEN IF IsLastField(lk_i, lookup_fields)
                   THEN /\ lk_result' = Raise("Http404")
                        /\ lk_pc' = "done"
                        /\ UNCHANGED lk_i
                   ELSE /\ lk_i' = lk_i + 1
                        /\ UNCHANGED <<lk_result, lk_pc>>
              ELSE /\ lk_result' = got
                   /\ lk_pc' = "done"
                   /\ UNCHANGED lk_i
    /\ UNCHANGED <<lookup_fields, lookup_url_kwarg, lk_kwargs, lk_db, lk_arg,
                   lk_qs, pgVars, pmVars, qsVars, actVars>>

LkNext == LkGetObject \/ LkTryField

SpecLookup == LkInit /\ [][LkNext]_vars

\* The queryset the lookups run against, and the outcome of field k's lookup.
LkSearched == IF lk_arg = Absent \/ lk_arg[1] = {} THEN lk_db ELSE lk_arg[1]
LkOutcome(k) == QuerysetGet(LkSearched, lookup_fields[k], lk_kwargs)
LkFails(k) == LkOutcome(k).kind = "raise" /\ LkOutcome(k).exc \in LookupCaught
LkMisconfigured == lookup_fields = <<>> \/ lookup_url_kwarg = Absent

\* C5: get_object tries lookup_fields in list order against the URL kwarg and
\* returns the object of the first field whose lookup succeeds, trying no later
\* field; it raises Http404 only after the lookup failed (not found, ValueError
\* or ValidationError) for every field; with lookup_fields empty or
\* lookup_url_kwarg unset it raises AttributeError before any lookup.
C5_FirstMatchWins ==
    /\ Len(lk_tried) <= Len(lookup_fields)
    /\ lk_tried = SubSeq(lookup_fields, 1, Len(lk_tried))
    /\ \A k \in 1..(Len(lk_tried) - 1) : LkFails(k)
    /\ lk_result.kind = "return" =>
          /\ lk_tried # <<>>
          /\ LkOutcome(Len(lk_tried)) = lk_result
          /\ lk_result.value \in LkSearched
    /\ (lk_result.kind = "raise" /\ lk_result.exc = "Http404") =>
          /\ lk_tried = lookup_fields
          /\ \A k \in 1..Len(lookup_fields) : LkFails(k)
    /\ (lk_pc = "done" /\ ~LkMisconfigured
          /\ \A k \in 1..Len(lookup_fields) : LkFails(k)) =>
          lk_result = Raise("Http404")
    /\ (lk_pc = "done" /\ ~LkMisconfigured
          /\ \E j \in 1..Len(lookup_fields) :
                /\ LkOutcome(j).kind = "return"
                /\ \A k \in 1..(j - 1) : LkFails(k)) =>
          lk_result.kind = "return"
    /\ (lk_pc = "done" /\ LkMisconfigured) =>
          /\ lk_result = Raise("AttributeError")
          /\ lk_tried = <<>>
    /\ (lk_result.kind = "raise" /\ lk_result.exc = "AttributeError") =>
          LkMisconfigured

\* Of three fields the first failed, the second found the object, which was
\* returned, and the third was never tried.
C5_Witness ==
    /\ lk_pc = "done"
    /\ Len(lookup_fields) = 3
    /\ Len(lk_tried) = 2
    /\ LkFails(1)
    /\ lk_result.kind = "return"

-----------------------------------------------------------------------------
(* ModelUserFieldPermissionMixin.test_func                                 *)

MaxPermQueryset == 2

Users == {"u1", "u2"}

\* Model instances: the attributes a view may name as the user field.
PermObjects == [user : Users, owner : Users]

\* test_func: `object` is a local of the method. It is bound from self.object
\* when that is set and truthy, else from get_object() when the view has one;
\* the last branch calls get_queryset().first() and binds nothing, so the
\* read of `object` in the return statement raises UnboundLocalError.
test_func(model_attr, current_user, self_object, get_object) ==
    IF self_object # Absent
    THEN Return(current_user = self_object[1][model_attr])
    ELSE IF get_object # Absent
    THEN Return(current_user = get_object[1][model_attr])
    ELSE Raise("UnboundLocalError")

PmInit ==
    /\ model_permission_user_field \in {"user", "owner"}
    /\ pm_user \in Users
    /\ pm_object \in {Absent} \cup {Some(o) : o \in PermObjects}
    /\ pm_get_object \in {Absent} \cup {Some(o) : o \in PermObjects}
    /\ pm_queryset \in SeqUpTo(PermObjects, MaxPermQueryset)
    /\ pm_result = Pending
    /\ PgIdle /\ LkIdle /\ QsIdle /\ ActIdle

\* A request by some user reaches the view.
PmDispatch ==
    /\ \E u \in Users : pm_user' = u
    /\ pm_result' = Pending
    /\ UNCHANGED <<model_permission_user_field, pm_object, pm_get_object,
                   pm_queryset, pgVars, lkVars, qsVars, actVars>>

PmTestFunc ==
    /\ pm_result = Pending
    /\ pm_result' = test_func(model_permission_user_field, pm_user, pm_object,
                              pm_get_object)
    /\ UNCHANGED <<model_permission_user_field, pm_user, pm_object,
                   pm_get_object, pm_queryset, pgVars, lkVars, qsVars, actVars>>

PmNext == PmDispatch \/ PmTestFunc

SpecPerm == PmInit /\ [][PmNext]_vars

\* The view has neither self.object nor get_object().
PmByQueryset == pm_object = Absent /\ pm_get_object = Absent

\* The object the three ways resolve to.
PmResolved ==
    IF pm_object # Absent THEN pm_object[1]
    ELSE IF pm_get_object # Absent THEN pm_get_object[1]
    ELSE pm_queryset[1]

\* C4: test_func returns true exactly when the requesting user equals the
\* object's attribute named by model_permission_user_field, for each of the
\* three ways the object is resolved: self.object, else get_object(), else the
\* first record of get_queryset().
C4_UserFieldDecides ==
    (pm_result # Pending /\ (PmByQueryset => pm_queryset # <<>>)) =>
        /\ pm_result.kind = "return"
        /\ pm_result.value = (pm_user = PmResolved[model_permission_user_field])

-----------------------------------------------------------------------------
(* build_query_string                                                      *)

MaxGetPairs == 2

\* Code points of the characters in use; Python orders strings by them.
Code(c) ==
    CASE c = " " -> 32 [] c = "%" -> 37 [] c = "&" -> 38 [] c = "+" -> 43
      [] c = "-" -> 45 [] c = "=" -> 61 [] c = "B" -> 66 [] c = "D" -> 68
      [] c = "a" -> 97 [] c = "b" -> 98 [] c = "c" -> 99
      [] c \in Digits -> 48 + DigitVal(c)

\* a < b for Python strings.
RECURSIVE StrLess(_, _)
StrLess(a, b) ==
    IF b = <<>> THEN FALSE
    ELSE IF a = <<>> THEN TRUE
    ELSE IF a[1] # b[1] THEN Code(a[1]) < Code(b[1])
    ELSE StrLess(Tail(a), Tail(b))

\* Values of template keyword arguments: strings and integers.
StrV(s) == [t |-> "str", s |-> s]
IntV(n) == [t |-> "int", n |-> n]

DigitChar(d) ==
    CASE d = 0 -> "0" [] d = 1 -> "1" [] d = 2 -> "2" [] d = 3 -> "3"
      [] d = 4 -> "4" [] d = 5 -> "5" [] d = 6 -> "6" [] d = 7 -> "7"
      [] d = 8 -> "8" [] d = 9 -> "9"

RECURSIVE NatToStr(_)
NatToStr(n) ==
    IF n < 10 THEN <<DigitChar(n)>>
    ELSE Append(NatToStr(n \div 10), DigitChar(n % 10))

\* str(v)
PyStr(v) ==
    IF v.t = "str" THEN v.s
    ELSE IF v.n < 0 THEN <<"-">> \o NatToStr(-v.n)
    ELSE NatToStr(v.n)

\* quote_plus of one character: a space becomes "+", a reserved character its
\* percent escape, an unreserved one itself.
QuoteChar(c) ==
    CASE c = " " -> <<"+">>
      [] c = "%" -> <<"%", "2", "5">>
      [] c = "&" -> <<"%", "2", "6">>
      [] c = "+" -> <<"%", "2", "B">>
      [] c = "=" -> <<"%", "3", "D">>
      [] OTHER -> <<c>>

RECURSIVE QuotePlus(_)
QuotePlus(str) ==
    IF str = <<>> THEN <<>> ELSE QuoteChar(str[1]) \o QuotePlus(Tail(str))

\* urlencode(pairs): quote_plus(str(k)) "=" quote_plus(str(v)), joined by "&".
RECURSIVE urlencode(_)
urlencode(pairs) ==
    IF pairs = <<>> THEN <<>>
    ELSE LET one == QuotePlus(pairs[1][1]) \o <<"=">> \o QuotePlus(PyStr(pairs[1][2]))
         IN  IF Len(pairs) = 1 THEN one
             ELSE one \o <<"&">> \o urlencode(Tail(pairs))

\* The character a percent escape stands for; "" when it is not an escape of
\* a character in use.
Unescape(h1, h2) ==
    CASE h1 = "2" /\ h2 = "0" -> " "
      [] h1 = "2" /\ h2 = "5" -> "%"
      [] h1 = "2" /\ h2 = "6" -> "&"
      [] h1 = "2" /\ h2 = "B" -> "+"
      [] h1 = "3" /\ h2 = "D" -> "="
      [] OTHER -> ""

\* unquote_plus
RECURSIVE UnquotePlus(_)
UnquotePlus(str) ==
    IF str = <<>> THEN <<>>
    ELSE IF str[1] = "+" THEN <<" ">> \o UnquotePlus(Tail(str))
    ELSE IF str[1] = "%" /\ Len(str) >= 3 /\ Unescape(str[2], str[3]) # ""
         THEN <<Unescape(str[2], str[3])>> \o UnquotePlus(SubSeq(str, 4, Len(str)))
    ELSE <<str[1]>> \o UnquotePlus(Tail(str))

\* The index of the first c in str, 0 when there is none.
RECURSIVE IndexOf(_, _, _)
IndexOf(str, c, from) ==
    IF from > Len(str) THEN 0
    ELSE IF str[from] = c THEN from
    ELSE IndexOf(str, c, from + 1)

\* One name=value piece of a query string (a piece without "=" has value "").
ParsePiece(piece) ==
    LET eq == IndexOf(piece, "=", 1)
    IN  IF eq = 0 THEN <<UnquotePlus(piece), <<>>>>
        ELSE <<UnquotePlus(SubSeq(piece, 1, eq - 1)),
               UnquotePlus(SubSeq(piece, eq + 1, Len(piece)))>>

\* request.GET of a query string: the (key, value) pairs in order, blank
\* values kept, empty pieces skipped.
RECURSIVE ParseQS(_)
ParseQS(str) ==
    IF str = <<>> THEN <<>>
    ELSE LET amp == IndexOf(str, "&", 1)
             piece == IF amp = 0 THEN str ELSE SubSeq(str, 1, amp - 1)
             rest == IF amp = 0 THEN <<>> ELSE SubSeq(str, amp + 1, Len(str))
         IN  IF piece = <<>> THEN ParseQS(rest)
             ELSE <<ParsePiece(piece)>> \o ParseQS(rest)

\* The values a (key, value) pair list gives for a key, in order.
RECURSIVE GetList(_, _)
GetList(pairs, k) ==
    IF pairs = <<>> THEN <<>>
    ELSE IF pairs[1][1] = k THEN <<pairs[1][2]>> \o GetList(Tail(pairs), k)
    ELSE GetList(Tail(pairs), k)

PairKeys(pairs) == {pairs[i][1] : i \in 1..Len(pairs)}

\* request.GET.copy() if request else {}: the multi-valued dictionary of the
\* request, each key with the list of its values.
GetCopy(request) ==
    IF request = Absent THEN <<>>
    ELSE [k \in PairKeys(request[1]) |->
             [i \in 1..Len(GetList(request[1], k)) |-> StrV(GetList(request[1], k)[i])]]

\* A slip that leaves a key given as None in place.
MergeParamsKeepNone(p, params) ==
    [k \in DOMAIN p \cup {k \in DOMAIN params : params[k] # Absent} |->
        IF k \in DOMAIN params /\ params[k] # Absent THEN <<params[k][1]>> ELSE p[k]]

\* The loop over params.items(): a None value deletes the key, any other
\* value replaces the key's list by that one value.
MergeParams(p, params) ==
    [k \in (DOMAIN p \ {k \in DOMAIN params : params[k] = Absent})
             \cup {k \in DOMAIN params : params[k] # Absent} |->
        IF k \in DOMAIN params THEN <<params[k][1]>> ELSE p[k]]

\* p.items(): each key once, with the last value of its list.
Items(p) == {<<k, p[k][Len(p[k])]>> : k \in DOMAIN p}

\* sorted(items): the keys are distinct, so the order is that of the keys.
RECURSIVE Sorted(_)
Sorted(items) ==
    IF items = {} THEN <<>>
    ELSE LET least == CHOOSE x \in items :
                          \A y \in items \ {x} : StrLess(x[1], y[1])
         IN  <<least>> \o Sorted(items \ {least})

build_query_string(request, params) ==
    urlencode(Sorted(Items(MergeParams(GetCopy(request), params))))

\* Request keys and values, and the keyword arguments of the tag (Python
\* identifiers, each None or a value).
GetKeys == {<<"a">>, <<"b">>, <<"a", "&">>}
GetValues == {<<>>, <<"1">>, <<"b", " ", "=">>, <<"%", "2", "6">>}
ParamKeys == {<<"a">>, <<"c">>}
ParamValues == {Absent, Some(StrV(<<"&">>)), Some(IntV(5)), Some(IntV(12))}

QsInit ==
    /\ qs_request \in {Absent} \cup
          {Some(g) : g \in SeqUpTo(GetKeys \X GetValues, MaxGetPairs)}
    /\ qs_params \in UNION {[K -> ParamValues] : K \in SUBSET ParamKeys}
    /\ qs_out = Pending
    /\ qs_again = Pending
    /\ PgIdle /\ LkIdle /\ PmIdle /\ ActIdle

\* {% build_query_string request k=v ... %}
QsBuild ==
    /\ qs_out = Pending
    /\ qs_out' = Return(build_query_string(qs_request, qs_params))
    /\ UNCHANGED <<qs_request, qs_params, qs_again, pgVars, lkVars, pmVars, actVars>>

\* The tag rendered again, with the same arguments, on the request that the
\* first result links to.
QsBuildAgain ==
    /\ qs_out # Pending
    /\ qs_again = Pending
    /\ qs_again' = Return(build_query_string(Some(ParseQS(qs_out.value)), qs_params))
    /\ UNCHANGED <<qs_request, qs_params, qs_out, pgVars, lkVars, pmVars, actVars>>

QsNext == QsBuild \/ QsBuildAgain

SpecQueryString == QsInit /\ [][QsNext]_vars

\* The request's (key, value) pairs, the pairs the result decodes to, and the
\* keyword arguments given as None and given a value.
QsRequestPairs == IF qs_request = Absent THEN <<>> ELSE qs_request[1]
QsOutPairs == ParseQS(qs_out.value)
QsNoneKeys == {k \in DOMAIN qs_params : qs_params[k] = Absent}
QsSetKeys == {k \in DOMAIN qs_params : qs_params[k] # Absent}
QsKeptKeys == PairKeys(QsRequestPairs) \ DOMAIN qs_params

\* What the result says about the keyword arguments, the keys it holds, their
\* order, and the second application.
QsParamsApplied ==
    /\ \A k \in QsNoneKeys : GetList(QsOutPairs, k) = <<>>
    /\ \A k \in QsSetKeys :
          GetList(QsOutPairs, k) = <<PyStr(qs_params[k][1])>>
    /\ PairKeys(QsOutPairs) = QsSetKeys \cup QsKeptKeys
    /\ \A i \in 1..(Len(QsOutPairs) - 1) :
          StrLess(QsOutPairs[i][1], QsOutPairs[i + 1][1])
    /\ qs_again # Pending => qs_again = qs_out

\* C6 as stated: the result is the URL-encoding of the request's GET
\* parameters merged with params: a None key is absent, a key given a value
\* appears exactly once with it, every request key not named in params is kept
\* with its request value (all that the request carries for it), the pairs
\* are sorted by key, and applying the same params again changes nothing.
C6_AsStated ==
    qs_out # Pending =>
        /\ QsParamsApplied
        /\ \A k \in QsKeptKeys :
              GetList(QsOutPairs, k) = GetList(QsRequestPairs, k)

\* C6 amended: as stated, except that a request key not named in params is
\* kept exactly once, with the last of the values the request carries for it.
C6_LastValueKept ==
    qs_out # Pending =>
        /\ QsParamsApplied
        /\ \A k \in QsKeptKeys :
              LET given == GetList(QsRequestPairs, k)
              IN  GetList(QsOutPairs, k) = <<given[Len(given)]>>

\* A request repeating a key with two values has been rendered with a new
\* key added, and rendered again.
C6_Witness ==
    /\ qs_again # Pending
    /\ Len(QsRequestPairs) = 2
    /\ QsRequestPairs[1][1] = QsRequestPairs[2][1]
    /\ QsRequestPairs[1][2] # QsRequestPairs[2][2]
    /\ QsRequestPairs[1][1] \in QsKeptKeys
    /\ QsSetKeys # {}

-----------------------------------------------------------------------------
(* The @action decorator and SelectActionMixin                             *)

MaxSelected == 2
MaxCap == 1
MaxDecorated == 1

\* The functions a view class can list as actions, and a name that is neither
\* a callable nor an attribute of the class.
FuncNames == {"f", "g"}
ActionNames == FuncNames \cup {"nosuch"}

\* Primary keys of the model's records.
Pks == {1, 2}

\* A function object that no decorator has touched.
PlainFunction(name) ==
    [name |-> name, allowed_permissions |-> Absent, short_description |-> Absent,
     allow_select_across |-> Absent]

\* decorator(func) inside action(): the attributes are set on func itself, and
\* func is what is returned.
decorator(func, permissions, description, allow_select_across) ==
    [func EXCEPT
        !.allowed_permissions = IF permissions # Absent THEN permissions ELSE @,
        !.short_description = IF description # Absent THEN description ELSE @,
        !.allow_select_across = Some(allow_select_across)]

\* getattr(action, "allow_select_across", True): a slip in the default.
can_select_across_default_true(func) ==
    IF func.allow_select_across = Absent THEN TRUE ELSE func.allow_select_across[1]

\* getattr(action, "allow_select_across", False)
can_select_across(func) ==
    IF func.allow_select_across = Absent THEN FALSE ELSE func.allow_select_across[1]

\* get_action: a name of the class gives its function, any other name None.
get_action(fs, name) == IF name \in FuncNames THEN Some(fs[name]) ELSE Absent

\* _get_base_actions: get_action of each entry of self.actions or [], the
\* None results filtered out.
RECURSIVE BaseActionsOf(_, _)
BaseActionsOf(fs, names) ==
    IF names = <<>> THEN <<>>
    ELSE LET a == get_action(fs, names[1])
         IN  (IF a = Absent THEN <<>> ELSE <<a[1]>>) \o BaseActionsOf(fs, Tail(names))

get_base_actions(fs, acts) ==
    BaseActionsOf(fs, IF acts = Absent THEN <<>> ELSE acts[1])

\* A filter that lets every action through.
filter_nothing(base, perms) == base

\* _filter_actions_by_permissions: an action without allowed_permissions
\* stays; one with them stays when the user has any of them.
filter_actions_by_permissions(base, perms) ==
    SelectSeq(base, LAMBDA fn :
        \/ fn.allowed_permissions = Absent
        \/ \E i \in 1..Len(fn.allowed_permissions[1]) :
              fn.allowed_permissions[1][i] \in perms)

\* get_actions: {} when self.actions is None, else the filtered base actions
\* by name.
get_actions(fs, acts, perms) ==
    IF acts = Absent THEN <<>>
    ELSE LET kept == filter_actions_by_permissions(get_base_actions(fs, acts), perms)
         IN  [n \in {kept[i].name : i \in 1..Len(kept)} |->
                 kept[CHOOSE i \in 1..Len(kept) :
                         /\ kept[i].name = n
                         /\ \A j \in (i + 1)..Len(kept) : kept[j].name # n]]

\* get_action_choices: the blank choice, then one choice per action.
get_action_choices(fs, acts, perms) == {""} \cup DOMAIN get_actions(fs, acts, perms)

\* action_form.is_valid(): 'action' is a required choice, so a missing or
\* empty value is invalid although the blank choice is listed.
is_valid(post, choices) ==
    /\ post.action # Absent
    /\ post.action[1] # ""
    /\ post.action[1] \in choices

\* cleaned_data["select_across"] of the hidden input's "0" or "1".
cleaned_select_across(post) == post.select_across = "1"

\* A cap that is applied to select_across requests too.
over_cap_always(select_across, max, selected) ==
    max # Absent /\ Len(selected) > max[1]

\* not select_across and self.action_selection_max is not None
\* and len(selected) > self.action_selection_max
over_cap(select_across, max, selected) ==
    ~select_across /\ max # Absent /\ Len(selected) > max[1]

\* A filter on the model's whole table instead of the view's queryset.
filter_all_records(qs, selected) == {pk \in Pks : pk \in Range(selected)}

\* queryset.filter(pk__in=selected)
filter_pk_in(qs, selected) == {pk \in qs : pk \in Range(selected)}

\* What an action function does when called.
ActionOutcomes == {"HttpResponse", "NoResponse", "ActionException", "OtherException"}

Message(level, text) == [level |-> level, text |-> text]

\* The end of response_action after the call, with the action's response
\* returned as it is.
finish_unchecked(outcome) ==
    IF outcome = "OtherException" THEN Raise("Exception")
    ELSE IF outcome = "HttpResponse" THEN Return("ActionResponse")
    ELSE Return("None")

\* try/except around the call and what follows: an ActionException is caught,
\* any other exception propagates; an HttpResponse-like return value is
\* returned, anything else gives handle_action_finished's redirect.
finish(outcome) ==
    IF outcome = "OtherException" THEN Raise("Exception")
    ELSE IF outcome = "HttpResponse" THEN Return("ActionResponse")
    ELSE Return("Redirect")

\* response_action(request, queryset): the value returned or exception raised,
\* the calls of action functions made, and the messages recorded.
response_action(fs, acts, max, perms, post, qs, outcome) ==
    LET none(msgs) == [result |-> Return("None"), calls |-> <<>>, messages |-> msgs]
    IN
    IF ~is_valid(post, get_action_choices(fs, acts, perms))
    THEN none(<<Message("warning", "No action selected.")>>)
    ELSE
    LET select_across == cleaned_select_across(post)
        func == get_actions(fs, acts, perms)[post.action[1]]
        selected == post.selected
    IN
    IF selected = <<>> /\ ~select_across
    THEN none(<<Message("warning", "Items must be selected")>>)
    ELSE IF over_cap(select_across, max, selected)
    THEN none(<<Message("error", "Only a maximum of num items")>>)
    ELSE IF select_across /\ ~can_select_across(func)
    THEN none(<<Message("error", "This action requires a discrete selection")>>)
    ELSE
    [result |-> finish(outcome),
     calls |-> <<[func |-> func.name,
                  queryset |-> IF select_across THEN qs
                               ELSE filter_pk_in(qs, selected),
                  outcome |-> outcome]>>,
     messages |-> IF outcome = "ActionException"
                  THEN <<Message("error", "str(e)")>> ELSE <<>>]

IsHttpResponse(result) ==
    result.kind = "return" /\ result.value \in {"ActionResponse", "Redirect"}

\* post(): response_action when the POST has an 'action' key, its response
\* returned when it is one; else the parent's post when there is one.
post(fs, acts, max, perms, has_parent, request, qs, outcome) ==
    LET ra == IF request.action # Absent
              THEN response_action(fs, acts, max, perms, request, qs, outcome)
              ELSE [result |-> Pending, calls |-> <<>>, messages |-> <<>>]
    IN  [ra |-> ra,
         response |->
            IF ra.result.kind = "raise" THEN ra.result
            ELSE IF ra.result # Pending /\ IsHttpResponse(ra.result) THEN ra.result
            ELSE IF has_parent THEN Return("ParentResponse")
            ELSE Return("None")]

\* The POST data of a request: the 'action' field (possibly missing), the
\* hidden 'select_across' field and the checked primary keys.
PostData ==
    [action : {Absent} \cup {Some(a) : a \in {""} \cup ActionNames},
     select_across : {"0", "1"},
     selected : SeqUpTo(Pks, MaxSelected)]

\* The arguments @action can be given.
DecoratorArgs ==
    [permissions : {Absent, Some(<<"change">>)},
     description : {Absent, Some("d")},
     allow_select_across : BOOLEAN]

\* The values of a view's actions attribute.
ActionLists ==
    {Absent} \cup {Some(l) : l \in {<<>>, <<"f">>, <<"f", "g">>,
                                     <<"g", "nosuch">>}}

ActConfig ==
    /\ actions \in ActionLists
    /\ action_selection_max \in {Absent} \cup {Some(n) : n \in 1..MaxCap}
    /\ queryset \in {{1}, {1, 2}}
    /\ user_perms \in SUBSET {"change"}
    /\ parent_post \in BOOLEAN

ActInit ==
    /\ deco = [n \in FuncNames |-> Absent]
    /\ funcs = [n \in FuncNames |-> PlainFunction(n)]
    /\ ActConfig
    /\ POST = <<>>
    /\ handler = "none"
    /\ calls = <<>>
    /\ messages = <<>>
    /\ ra_result = Pending
    /\ response = Pending
    /\ PgIdle /\ LkIdle /\ PmIdle /\ QsIdle

\* A function of the class body is decorated with @action(...), before the
\* view serves requests.
ActDecorate ==
    /\ handler = "none"
    /\ \E n \in FuncNames, args \in DecoratorArgs :
          /\ deco[n] = Absent
          /\ Cardinality({m \in FuncNames : deco[m] # Absent}) < MaxDecorated
          /\ deco' = [deco EXCEPT ![n] = Some(args)]
          /\ funcs' = [funcs EXCEPT ![n] =
                          decorator(@, args.permissions, args.description,
                                    args.allow_select_across)]
    /\ UNCHANGED <<actions, action_selection_max, queryset, user_perms,
                   parent_post, POST, handler, calls, messages, ra_result,
                   response, pgVars, lkVars, pmVars, qsVars>>

\* A POST request handled by post() of the view instance made for it.
ActPost ==
    /\ handler = "none"
    /\ \E request \in PostData, outcome \in ActionOutcomes :
          LET done == post(funcs, actions, action_selection_max, user_perms,
                           parent_post, request, queryset, outcome)
          IN  /\ POST' = request
              /\ handler' = "post"
              /\ calls' = done.ra.calls
              /\ messages' = done.ra.messages
              /\ ra_result' = done.ra.result
              /\ response' = done.response
    /\ UNCHANGED <<deco, funcs, actions, action_selection_max, queryset,
                   user_perms, parent_post, pgVars, lkVars, pmVars, qsVars>>

ActNext == ActDecorate \/ ActPost

SpecAction == ActInit /\ [][ActNext]_vars

\* The functions that the view lists in actions and that the requesting user
\* is permitted to run.
ActPermitted ==
    IF actions = Absent THEN {}
    ELSE {n \in FuncNames \cap Range(actions[1]) :
            \/ funcs[n].allowed_permissions = Absent
            \/ Range(funcs[n].allowed_permissions[1]) \cap user_perms # {}}

\* A request has been handled; it carried an 'action' field; the field names a
\* permitted action; it asked for all records; an action function was called.
ActHandled == handler = "post"
ActPosted == POST.action # Absent
ActChosen == ActPosted /\ POST.action[1] \in ActPermitted
ActSelectAcross == POST.select_across = "1"
ActInvoked == calls # <<>>
ActOverCap ==
    action_selection_max # Absent /\ Len(POST.selected) > action_selection_max[1]

\* The chosen action was marked allow_select_across=True by @action.
ActMarkedAcross(n) == deco[n] # Absent /\ deco[n][1].allow_select_across

ActNoneWith(level, text) ==
    /\ ~ActInvoked
    /\ ra_result = Return("None")
    /\ messages = <<[level |-> level, text |-> text]>>

\* C2: without select_across and with action_selection_max set, no action is
\* invoked with more than action_selection_max selected items: a POST selecting
\* more invokes no action, records an error message and returns None. The cap
\* is not applied when action_selection_max is None or the request is
\* select_across.
C2_SelectionCap ==
    (ActHandled /\ ActPosted) =>
        /\ (ActInvoked /\ ~ActSelectAcross /\ action_selection_max # Absent) =>
              /\ Len(POST.selected) <= action_selection_max[1]
              /\ Cardinality(calls[1].queryset) <= action_selection_max[1]
        /\ (ActChosen /\ ~ActSelectAcross /\ ActOverCap) =>
              ActNoneWith("error", "Only a maximum of num items")
        /\ (ActChosen /\ ~ActSelectAcross /\ action_selection_max = Absent
              /\ POST.selected # <<>>) => ActInvoked
        /\ (ActChosen /\ ActSelectAcross /\ ActMarkedAcross(POST.action[1])) =>
              ActInvoked

\* Two items were selected under a cap of one, and the request was refused.
C2_Witness ==
    /\ ActHandled /\ ActChosen /\ ~ActSelectAcross
    /\ action_selection_max = Some(1)
    /\ Len(POST.selected) = 2
    /\ ActNoneWith("error", "Only a maximum of num items")

\* C3: an action is invoked for a select_across request only if it was marked
\* allow_select_across=True; one decorated without the option, or not
\* decorated, is not invoked: an error message is recorded and None returned.
\* @action returns the same function, always sets allow_select_across, and
\* sets allowed_permissions / short_description only when they are given.
C3_SelectAcrossOptIn ==
    /\ \A n \in FuncNames :
          /\ funcs[n].name = n
          /\ deco[n] = Absent =>
                /\ funcs[n].allow_select_across = Absent
                /\ funcs[n].allowed_permissions = Absent
                /\ funcs[n].short_description = Absent
          /\ deco[n] # Absent =>
                /\ funcs[n].allow_select_across = Some(deco[n][1].allow_select_across)
                /\ funcs[n].allowed_permissions = deco[n][1].permissions
                /\ funcs[n].short_description = deco[n][1].description
    /\ (ActHandled /\ ActPosted) =>
          /\ (ActInvoked /\ ActSelectAcross) => ActMarkedAcross(calls[1].func)
          /\ (ActChosen /\ ActSelectAcross /\ ~ActMarkedAcross(POST.action[1])) =>
                ActNoneWith("error", "This action requires a discrete selection")

\* A select_across request for an action decorated without the option, with
\* permissions and a description given, was refused.
C3_Witness ==
    /\ ActHandled /\ ActChosen /\ ActSelectAcross
    /\ deco[POST.action[1]] # Absent
    /\ ~deco[POST.action[1]][1].allow_select_across
    /\ funcs[POST.action[1]].allowed_permissions # Absent
    /\ funcs[POST.action[1]].short_description # Absent
    /\ ActNoneWith("error", "This action requires a discrete selection")

\* C7: response_action returns None in exactly the cases where no action
\* function was invoked (no valid action, empty selection without
\* select_across, selection over the cap, select_across not allowed); when the
\* function was invoked it returns the action's own HttpResponse-like return
\* value, otherwise the redirect, also when the action raised ActionException,
\* which is recorded as an error message and not propagated.
C7_ResponseIffHandled ==
    (ActHandled /\ ActPosted) =>
        /\ ra_result # Pending
        /\ ra_result.kind = "return" => (ra_result.value = "None" <=> ~ActInvoked)
        /\ ~ActInvoked <=>
              \/ ~ActChosen
              \/ POST.selected = <<>> /\ ~ActSelectAcross
              \/ ~ActSelectAcross /\ ActOverCap
              \/ ActSelectAcross /\ ~ActMarkedAcross(POST.action[1])
        /\ ~ActInvoked => ra_result = Return("None")
        /\ ActInvoked =>
              /\ calls[1].outcome = "HttpResponse" =>
                    ra_result = Return("ActionResponse") /\ messages = <<>>
              /\ calls[1].outcome = "NoResponse" =>
                    ra_result = Return("Redirect") /\ messages = <<>>
              /\ calls[1].outcome = "ActionException" =>
                    /\ ra_result = Return("Redirect")
                    /\ messages = <<[level |-> "error", text |-> "str(e)"]>>
              /\ ra_result.kind = "raise" => calls[1].outcome = "OtherException"

\* An action raised ActionException and the redirect was returned.
C7_Witness ==
    /\ ActHandled /\ ActInvoked
    /\ calls[1].outcome = "ActionException"
    /\ ra_result = Return("Redirect")
    /\ response = Return("Redirect")

\* C8: without select_across the action receives exactly the records of the
\* view's queryset whose primary key was POSTed; with select_across (allowed)
\* it receives the view's whole queryset whatever was POSTed.
C8_ExactRecords ==
    (ActHandled /\ ActInvoked) =>
        /\ Len(calls) = 1
        /\ calls[1].queryset =
              IF ActSelectAcross THEN queryset
              ELSE queryset \cap Range(POST.selected)

\* A selection naming a record outside the view's queryset and one inside it
\* was acted on.
C8_Witness ==
    /\ ActHandled /\ ActInvoked /\ ~ActSelectAcross
    /\ Range(POST.selected) \ queryset # {}
    /\ calls[1].queryset # {}

\* The parent's post, when there is one, gives the response.
ActFellThrough ==
    response = Return(IF parent_post THEN "ParentResponse" ELSE "None")

ActNoActionSelected ==
    /\ ~ActInvoked
    /\ messages = <<[level |-> "warning", text |-> "No action selected."]>>
    /\ ActFellThrough

\* C9 as stated: for any POST handled by post, only a member of
\* get_actions(request) can be invoked; when actions is None or the POSTed
\* action name is not among the permitted choices, no action is invoked, a
\* 'No action selected.' warning is recorded and the parent's post, if any,
\* takes over.
C9_AsStated ==
    ActHandled =>
        /\ ActInvoked => calls[1].func \in ActPermitted
        /\ (actions = Absent \/ (ActPosted /\ ~ActChosen)) => ActNoActionSelected

\* C9 amended: the warning is recorded when the POST carries an 'action'
\* field; a POST without one invokes nothing, records nothing and goes to the
\* parent's post.
C9_PermittedOnly ==
    ActHandled =>
        /\ ActInvoked => calls[1].func \in ActPermitted
        /\ (ActPosted /\ ~ActChosen) => ActNoActionSelected
        /\ ~ActPosted => (~ActInvoked /\ messages = <<>> /\ ActFellThrough)

\* A listed action that the user lacks the permission for was POSTed, and the
\* parent's post answered.
C9_Witness ==
    /\ ActHandled /\ ActPosted
    /\ actions # Absent
    /\ POST.action[1] \in FuncNames \cap Range(actions[1])
    /\ POST.action[1] \notin ActPermitted
    /\ parent_post
    /\ ActNoActionSelected

=============================================================================
